---- MODULE Spec2Model ----
(***************************************************************************)
(* Model of the datamaster engine (src/app/engine_datamaster.py) and of    *)
(* its aggregation stage (src/app/excel_datamaster.py).                    *)
(*                                                                         *)
(* Text is modelled at token level.  A cleaned line (the result of _clean: *)
(* runs of whitespace collapsed, ends stripped) is a sequence of tokens; a *)
(* token is a record [w, g]: w is the token's text and g says that the     *)
(* token follows the previous one without whitespace (this only happens to *)
(* a parenthesized identity number after the officer fragment in front of  *)
(* it was removed: "1 - LIE KEZIA (00009461155)" becomes "1(00009461155)").*)
(* Every regular expression of the source is translated to the test it     *)
(* performs on lines built from the token vocabulary below; the comments   *)
(* at each definition state the translation.  All tokens are upper case,   *)
(* so str.upper() is the identity on them.                                 *)
(***************************************************************************)
EXTENDS Integers, Sequences, FiniteSets

VARIABLES
    pc,            \* position in parse_pdfs_to_raw / build_outputs
    doc,           \* index of the document being scanned (pdf_paths loop)
    page,          \* raw physical lines of the page being scanned
    lines,         \* the page's lines after noise filter, split and merge
    idx,           \* index in lines of the next line of the assembly loop
    current_name,  \* active borrower name (sequence of words, << >> = "")
    current_cif,   \* active identity number ("" = none)
    last_acc,      \* carried account-number hint ("" = None)
    rows,          \* records appended so far
    df,            \* data frame returned by parse_pdfs_to_raw
    raw,           \* data frame handed to the aggregation stage
    pri,           \* priority view
    non,           \* non-priority view
    now,           \* datetime.utcnow(), in days
    TOKENS,        \* main.TOKENS: token -> [path, expires_at]
    files,         \* the output files that exist
    links,         \* token -> time of the last job_status that returned it
    resp,          \* the response of the last request
    req            \* request thread -> its position in job_status / download

\* the state of the web service (main.py)
web == <<now, TOKENS, files, links, resp, req>>

\* the state of the engine and of the aggregation
engine == <<pc, doc, page, lines, idx, current_name, current_cif, last_acc,
            rows, df, raw, pri, non>>

vars == <<pc, doc, page, lines, idx, current_name, current_cif, last_acc,
          rows, df, raw, pri, non, now, TOKENS, files, links, resp, req>>

(***************************************************************************)
(* Bounds of the model.                                                    *)
(***************************************************************************)
MaxLines == 3      \* physical lines per page, single-document runs
MaxDocs == 2       \* documents per call, multi-document runs
MaxDocLines == 2   \* physical lines per page, multi-document runs
MaxMergeLines == 3 \* lines handed to _merge_wrapped on its own
MaxRecs == 3       \* records handed to the aggregation stage

(***************************************************************************)
(* Token vocabulary and the character classes the regular expressions test.*)
(***************************************************************************)
SeqTok == {"1", "5", "6"}
AccTok == {"1234567890", "9988776655"}
AmtTok == {"50000", "70000"}
HdrTok == {"20810"}
\* tokens that are a run of digits (\d+)
DigitTok == SeqTok \cup AccTok \cup AmtTok \cup HdrTok
\* CIF_RE = \((\d{11})\)
CifTok == {"(00018964777)", "(00018964778)", "(00009461155)"}
\* DATE_RE = \b(\d{2}-\d{2}-\d{4})\b
DateTok == {"01-01-2023", "01-01-2024", "01-02-2024", "31-02-2024"}
CurTok == {"IDR", "USD", "CNY"}
\* SECTOR_WORDS_RE (the members of the list the vocabulary uses)
SectorTok == {"PETERNAKAN", "DISTRIBUSI"}
\* tokens made of letters only
LetterTok == {"UTOMO", "SARI", "LILIK", "SOESILOWATI", "LIE", "KEZIA", "SAPI",
              "BARANG", "BANK", "GARANSI", "OTHER", "FEE", "TIME", "LOAN",
              "KREDIT", "LOKAL", "MULTI", "FASILITAS", "TRUST", "RECEIPT",
              "LETTER", "OF", "CREDIT", "LC", "TR", "TL", "KL", "BG", "PT",
              "CABANG", "KUDUS", "KONDANG"}
                 \cup CurTok \cup SectorTok
\* tokens that start with a letter
LetterFirstTok == LetterTok \cup {"L/C"}
\* tokens made only of the characters of [A-Za-z .,'/-]
AOClassTok == LetterTok \cup {"L/C", "-"}

Tk(w) == [w |-> w, g |-> FALSE]
Ln(ws) == [i \in 1..Len(ws) |-> Tk(ws[i])]
Text(s) == [i \in 1..Len(s) |-> s[i].w]

Min(S) == CHOOSE m \in S : \A n \in S : m <= n
Max(S) == CHOOSE m \in S : \A n \in S : m >= n

\* index of the first token at or after position from whose text is in T (0: none)
FirstIn(s, T, from) ==
    LET I == {i \in from..Len(s) : s[i].w \in T}
    IN  IF I = {} THEN 0 ELSE Min(I)

\* re.search of CIF_RE, ACC_RE; re.findall of DATE_RE
HasCif(s) == FirstIn(s, CifTok, 1) # 0
HasAcc(s) == FirstIn(s, AccTok, 1) # 0
Dates(s) == SelectSeq(Text(s), LAMBDA w : w \in DateTok)

\* ROWSTART_RE = ^\s*(\d+)\s+ : the line starts with a run of digits that
\* whitespace follows
RowStart(s) == Len(s) >= 2 /\ s[1].w \in DigitTok /\ ~s[2].g

\* str.split(): the words of a line; a glued token belongs to the word of
\* the token before it.  A word is the sequence of the texts of its tokens.
RECURSIVE Words(_)
Words(s) ==
    IF s = << >> THEN << >>
    ELSE LET n == Len(s)
             ws == Words(SubSeq(s, 1, n - 1))
         IN  IF s[n].g /\ n > 1
             THEN [ws EXCEPT ![Len(ws)] = Append(@, s[n].w)]
             ELSE Append(ws, <<s[n].w>>)

\* number of characters of the tokens a..b of s with the blanks between them
RECURSIVE Chars(_, _, _)
Chars(s, a, b) ==
    IF a > b THEN 0
    ELSE Len(s[a].w) + (IF a < b /\ ~s[a + 1].g THEN 1 ELSE 0)
         + Chars(s, a + 1, b)

(***************************************************************************)
(* _is_noise                                                               *)
(***************************************************************************)
\* the banner prefixes; of them the vocabulary has the token CABANG
NoisePrefixTok == {"CABANG"}

is_noise(s) ==
    \/ s = << >>
    \/ s[1].w \in NoisePrefixTok
    \* ^\d{4,6}\s*-\s*[A-Z][A-Z .'/,-]{2,}$
    \/ /\ Len(s) >= 3
       /\ s[1].w \in DigitTok /\ Len(s[1].w) \in 4..6
       /\ s[2].w = "-"
       /\ s[3].w \in LetterFirstTok
       /\ \A k \in 3..Len(s) : s[k].w \in AOClassTok /\ ~s[k].g
       /\ Chars(s, 3, Len(s)) >= 3

(***************************************************************************)
(* The officer fragment in front of an identity number:                    *)
(*   re.sub(r"\s*-\s*[A-Za-z][A-Za-z .,'/-]{2,}(?=\s*\(\d{11}\))", "", ln) *)
(* A match starts at a hyphen token, runs over tokens of the class only    *)
(* (the first starting with a letter, three characters at least) and ends  *)
(* right before an identity number.  The blank before the hyphen and the   *)
(* blank after the fragment belong to the match, so the identity number is *)
(* left glued to the token before the hyphen.                              *)
(***************************************************************************)
AOFragmentAt(s, i) ==
    LET j == FirstIn(s, CifTok, i + 1)
    IN  /\ s[i].w = "-"
        /\ j >= i + 2
        /\ s[i + 1].w \in LetterFirstTok
        /\ \A k \in (i + 1)..(j - 1) : s[k].w \in AOClassTok
        /\ Chars(s, i + 1, j - 1) + (IF s[j].g THEN 0 ELSE 1) >= 3

\* mutant of strip_ao: the pattern without its lookahead, the identity
\* number is removed with the fragment
RECURSIVE strip_ao_without_lookahead(_)
strip_ao_without_lookahead(s) ==
    LET I == {i \in 1..Len(s) : AOFragmentAt(s, i)}
    IN  IF I = {} THEN s
        ELSE LET i == Min(I)
                 j == FirstIn(s, CifTok, i + 1)
             IN  SubSeq(s, 1, i - 1)
                   \o strip_ao_without_lookahead(SubSeq(s, j + 1, Len(s)))

RECURSIVE strip_ao(_)
strip_ao(s) ==
    LET I == {i \in 1..Len(s) : AOFragmentAt(s, i)}
    IN  IF I = {} THEN s
        ELSE LET i == Min(I)
                 j == FirstIn(s, CifTok, i + 1)
             IN  SubSeq(s, 1, i - 1)
                   \o <<[s[j] EXCEPT !.g = (i > 1)]>>
                   \o strip_ao(SubSeq(s, j + 1, Len(s)))

(***************************************************************************)
(* _split_embedded_borrowers                                               *)
(*   EMBED_BORROWER_RE = \b\d+\s+[^()]{2,120}\(\d{11}\)                    *)
(* A match starts at a token that is a run of digits followed by a blank,  *)
(* and ends with the first identity number after it, 2 to 120 characters   *)
(* further.  finditer returns the leftmost matches, not overlapping.       *)
(***************************************************************************)
EmbedMin == 2
EmbedMax == 120

AnchorAt(s, i) ==
    LET j == FirstIn(s, CifTok, i + 1)
        n == Chars(s, i + 1, j - 1) + (IF s[j].g THEN 0 ELSE 1)
    IN  /\ s[i].w \in DigitTok
        /\ i < Len(s) /\ ~s[i + 1].g
        /\ j > i + 1
        /\ n >= EmbedMin /\ n <= EmbedMax

\* the start positions of the matches of finditer, scanning from position from
RECURSIVE Anchors(_, _)
Anchors(s, from) ==
    LET I == {i \in from..Len(s) : AnchorAt(s, i)}
    IN  IF I = {} THEN {}
        ELSE {Min(I)} \cup Anchors(s, FirstIn(s, CifTok, Min(I) + 1) + 1)

\* the parts s[a:b] between the consecutive cut points
RECURSIVE CutAt(_, _)
CutAt(s, cuts) ==
    IF cuts = {} THEN <<s>>
    ELSE LET c == Max(cuts)
         IN  Append(CutAt(SubSeq(s, 1, c - 1), cuts \ {c}),
                    SubSeq(s, c, Len(s)))

split_one(ln) ==
    LET s == strip_ao(ln)
        cut_points == Anchors(s, 1) \ {1}
    IN  IF s = << >> THEN << >>
        ELSE SelectSeq(CutAt(s, cut_points), LAMBDA part : part # << >>)

RECURSIVE split_embedded_borrowers(_)
split_embedded_borrowers(ls) ==
    IF ls = << >> THEN << >>
    ELSE split_one(Head(ls)) \o split_embedded_borrowers(Tail(ls))

(***************************************************************************)
(* Substring tests on a sequence of words: "BANK GARANSI" in u             *)
(***************************************************************************)
HasPhrase(ws, ph) ==
    \E k \in 1..Len(ws) :
        k + Len(ph) - 1 <= Len(ws) /\ SubSeq(ws, k, k + Len(ph) - 1) = ph

HasWord(ws, T) == \E k \in 1..Len(ws) : ws[k] \in T

\* " IDR " in f" {line} ": a currency code that is a word of its own
HasCurrencyWord(s) ==
    \E k \in 1..Len(Words(s)) :
        Len(Words(s)[k]) = 1 /\ Words(s)[k][1] \in CurTok

(***************************************************************************)
(* _merge_wrapped                                                          *)
(***************************************************************************)
\* mutant of looks_like_borrower_stub: three alphabetic tokens are required
looks_like_stub_three_words(x) ==
    /\ x # << >>
    /\ ~HasAcc(x)
    /\ Dates(x) = << >>
    /\ Cardinality({k \in 1..Len(x) : x[k].w \in LetterTok}) >= 3

looks_like_borrower_stub(x) ==
    \* toks = x.replace("/", " ").split(): the token L/C gives two words
    LET alpha == Cardinality({k \in 1..Len(x) : x[k].w \in LetterTok})
                 + 2 * Cardinality({k \in 1..Len(x) : x[k].w = "L/C"})
        \* re.fullmatch(r"[\d,.-]+", t)
        digit == Cardinality({k \in 1..Len(x) :
                                 x[k].w \in DigitTok \cup {"-"}})
    IN  /\ x # << >>
        /\ ~HasAcc(x)
        /\ Dates(x) = << >>
        /\ alpha >= 2 /\ alpha >= digit

\* re.match(r'^\d{4,6}\s*-\s*[A-Z]', line.upper())
AOHeaderStart(s) ==
    /\ Len(s) >= 3
    /\ s[1].w \in DigitTok /\ Len(s[1].w) \in 4..6
    /\ s[2].w = "-"
    /\ s[3].w \in LetterFirstTok

is_lc(s) ==
    \/ HasWord(Text(s), {"L/C"})
    \/ HasPhrase(Text(s), <<"LETTER", "OF", "CREDIT">>)

missing_currency(s) == ~HasCurrencyWord(s)
missing_dates(s) == Len(Dates(s)) < 2

RECURSIVE merge_from(_, _)
merge_from(ls, i) ==
    IF i > Len(ls) THEN << >>
    ELSE
      LET line == ls[i]
          nxt == IF i + 1 <= Len(ls) THEN ls[i + 1] ELSE << >>
          nxt2 == IF i + 2 <= Len(ls) THEN ls[i + 2] ELSE << >>
          wrap == ~HasCif(line) /\ nxt # << >> /\ HasCif(nxt)
          comb == line \o nxt
      IN  IF line = << >> THEN merge_from(ls, i + 1)
          \* BORROWER WRAP, case A: rowstart line
          ELSE IF wrap /\ RowStart(line)
          THEN IF AOHeaderStart(line)
               THEN <<line>> \o merge_from(ls, i + 1)
               ELSE <<comb>> \o merge_from(ls, i + 2)
          \* BORROWER WRAP, case B: borrower stub, then AO/CIF on next line
          ELSE IF /\ wrap
                  /\ looks_like_borrower_stub(line)
                  /\ (nxt[1].w = "-" \/ nxt[1].w \in CifTok \/ HasCif(nxt))
          THEN <<strip_ao(comb)>> \o merge_from(ls, i + 2)
          \* FACILITY WRAP (non L/C)
          ELSE IF /\ HasAcc(line) /\ ~is_lc(line)
                  /\ (missing_currency(line) \/ missing_dates(line))
          THEN IF /\ nxt2 # << >>
                  /\ (missing_currency(comb) \/ missing_dates(comb))
               THEN <<comb \o nxt2>> \o merge_from(ls, i + 3)
               ELSE <<comb>> \o merge_from(ls, i + 2)
          ELSE <<line>> \o merge_from(ls, i + 1)

merge_wrapped(ls) ==
    SelectSeq(merge_from(ls, 1), LAMBDA x : x # << >>)

(***************************************************************************)
(* _derive_name_and_cif                                                    *)
(***************************************************************************)
CORP_MARKERS == {"PT", "CV", "UD", "PD", "TB", "KOPERASI"}
NON_NAME_NOISE == {"IDR", "USD", "CNY", "LOAN", "INSTALLMENT"}

RECURSIVE dedup_tokens(_)
dedup_tokens(ts) ==
    IF ts = << >> THEN << >>
    ELSE LET n == Len(ts)
             init == SubSeq(ts, 1, n - 1)
         IN  IF \E k \in 1..(n - 1) : ts[k] = ts[n]
             THEN dedup_tokens(init)
             ELSE Append(dedup_tokens(init), ts[n])

clean_company_name(ts) ==
    LET I == {k \in 1..Len(ts) : ts[k] \in {"PT", "CV"}}
    IN  IF I = {} THEN ts ELSE SubSeq(ts, 1, Min(I))

looks_bad_name(name) ==
    \/ name = << >>
    \/ HasWord(name, CurTok)
    \/ HasWord(name, {"KREDIT", "L/C"})
    \/ HasPhrase(name, <<"BANK", "GARANSI">>)
    \/ HasPhrase(name, <<"TIME", "LOAN">>)
    \/ HasPhrase(name, <<"TRUST", "RECEIPT">>)
    \/ HasPhrase(name, <<"LETTER", "OF", "CREDIT">>)
    \/ HasWord(name, DateTok) \/ HasWord(name, AccTok)

NoBorrower == [name |-> << >>, cif |-> ""]

derive_name_and_cif(ln) ==
    LET \* re.sub(r"^\s*-\s+", "", s)
        s == IF Len(ln) >= 2 /\ ln[1].w = "-" /\ ~ln[2].g THEN Tail(ln) ELSE ln
        jc == FirstIn(s, CifTok, 1)
        cif == s[jc].w
        \* no line of the vocabulary starts with MILIK: s2 = s
        s2 == s
        before == SubSeq(s2, 1, jc - 1)
        \* ROWSTART_RE.sub("", before_cif)
        before_cif == IF RowStart(before) THEN Tail(before) ELSE before
        ja == FirstIn(s2, AccTok, 1)
        \* the name ends at the account number when it precedes the CIF; with
        \* the account number first on the line the slice seg[:0] is empty
        seg0 == IF ja # 0 /\ ja < jc
                THEN IF RowStart(s2) THEN SubSeq(s2, 2, ja - 1)
                                     ELSE SubSeq(s2, 1, ja - 1)
                ELSE before_cif
        \* SECTOR_WORDS_RE.split(seg)[0]
        js == FirstIn(seg0, SectorTok, 1)
        seg == IF js = 0 THEN seg0 ELSE SubSeq(seg0, 1, js - 1)
        toks0 == Text(seg)
        is_corp == HasWord(toks0, CORP_MARKERS)
        toks1 == IF is_corp THEN clean_company_name(toks0)
                 ELSE SubSeq(toks0, 1, Min({3, Len(toks0)}))
        toks2 == SelectSeq(toks1, LAMBDA t : t \notin NON_NAME_NOISE)
        name == dedup_tokens(toks2)
    IN  IF jc = 0 THEN NoBorrower
        ELSE IF before_cif # << >> /\ before_cif[1].w = "-"
        THEN [name |-> << >>, cif |-> cif]
        ELSE IF looks_bad_name(name) THEN [name |-> << >>, cif |-> cif]
        ELSE [name |-> name, cif |-> cif]

(***************************************************************************)
(* normalize_fasilitas, is_priority_facility                               *)
(***************************************************************************)
normalize_fasilitas(f) ==
    IF \/ HasPhrase(f, <<"LETTER", "OF", "CREDIT">>)
       \/ HasWord(f, {"L/C", "LC"})
    THEN <<"L/C">>
    ELSE IF HasPhrase(f, <<"TRUST", "RECEIPT">>) \/ HasWord(f, {"TR"})
    THEN <<"TRUST", "RECEIPT">>
    ELSE IF \/ HasPhrase(f, <<"KREDIT", "MULTI">>)
            \/ HasPhrase(f, <<"MULTI", "FASILITAS">>)
    THEN <<"KREDIT", "MULTI", "FASILITAS">>
    ELSE IF HasPhrase(f, <<"TIME", "LOAN">>) \/ HasWord(f, {"TL"})
    THEN <<"TIME", "LOAN">>
    ELSE IF HasPhrase(f, <<"KREDIT", "LOKAL">>) \/ HasWord(f, {"KL"})
    THEN <<"KREDIT", "LOKAL">>
    ELSE IF HasPhrase(f, <<"BANK", "GARANSI">>) \/ HasWord(f, {"BG"})
    THEN <<"BANK", "GARANSI">>
    ELSE f

\* excel_datamaster.LISTED_FACILITIES
LISTED_FACILITIES ==
    {<<"BANK", "GARANSI">>, <<"KREDIT", "LOKAL">>, <<"TIME", "LOAN">>,
     <<"KREDIT", "MULTI", "FASILITAS">>, <<"L/C">>, <<"TRUST", "RECEIPT">>}

\* mutant of is_priority_facility: the key BANK GARANSI is not tested
is_priority_without_guarantee(f) ==
    \/ HasPhrase(f, <<"KREDIT", "LOKAL">>)
    \/ HasPhrase(f, <<"TIME", "LOAN">>)
    \/ HasPhrase(f, <<"KREDIT", "MULTI", "FASILITAS">>)
    \/ HasWord(f, {"L/C"})
    \/ HasPhrase(f, <<"TRUST", "RECEIPT">>)

is_priority_facility(f) ==
    \/ HasPhrase(f, <<"BANK", "GARANSI">>)
    \/ HasPhrase(f, <<"KREDIT", "LOKAL">>)
    \/ HasPhrase(f, <<"TIME", "LOAN">>)
    \/ HasPhrase(f, <<"KREDIT", "MULTI", "FASILITAS">>)
    \/ HasWord(f, {"L/C"})
    \/ HasPhrase(f, <<"TRUST", "RECEIPT">>)

(***************************************************************************)
(* _parse_amount_token, datetime.strptime(..., "%d-%m-%Y")                 *)
(***************************************************************************)
NoAmount == "None"
NoDate == 0

\* a word of digits is the amount (none of the amounts of the vocabulary
\* has a thousands separator or a leading zero)
parse_amount_token(word) ==
    IF Len(word) = 1 /\ word[1] \in DigitTok THEN word[1] ELSE NoAmount

\* mutant of parse_date: a day past the end of the month is read as the
\* last day of the month
parse_date_lenient(w) ==
    CASE w = "01-01-2023" -> 20230101
      [] w = "01-01-2024" -> 20240101
      [] w = "01-02-2024" -> 20240201
      [] w = "31-02-2024" -> 20240229
      [] OTHER -> 0

\* the date as the number yyyymmdd; 31-02-2024 is no calendar date
parse_date(w) ==
    CASE w = "01-01-2023" -> 20230101
      [] w = "01-01-2024" -> 20240101
      [] w = "01-02-2024" -> 20240201
      [] OTHER -> NoDate

(***************************************************************************)
(* _parse_facility_from_line, _parse_facility_from_line_no_acc             *)
(***************************************************************************)
NoFac == [ok |-> FALSE]

\* the texts of the words a..b of W, one after the other
RECURSIVE Join(_, _, _)
Join(W, a, b) == IF a > b THEN << >> ELSE W[a] \o Join(W, a + 1, b)

FirstWord(W, T, from) ==
    LET I == {k \in from..Len(W) : Len(W[k]) = 1 /\ W[k][1] \in T}
    IN  IF I = {} THEN 0 ELSE Min(I)

parse_facility_from_line(s) ==
    LET dates == Dates(s)
        acc == s[FirstIn(s, AccTok, 1)].w
        toks == Words(s)
        i_acc == FirstWord(toks, {acc}, 1)
        currency_idx == FirstWord(toks, CurTok, i_acc + 1)
        fasilitas_raw == Join(toks, i_acc + 1, currency_idx - 1)
        plaf == IF currency_idx + 1 <= Len(toks)
                THEN parse_amount_token(toks[currency_idx + 1])
                ELSE NoAmount
    IN  IF ~HasAcc(s) \/ Len(dates) < 2 THEN NoFac
        ELSE IF i_acc = 0 THEN NoFac
        ELSE IF currency_idx = 0 THEN NoFac
        ELSE [ok |-> TRUE, acc |-> acc,
              fasilitas |-> normalize_fasilitas(fasilitas_raw),
              plafond |-> plaf,
              dt_akhir |-> parse_date(dates[Len(dates)])]

\* the keys of the facility guess, in the order the source tries them
FacilityKeys ==
    << <<"BANK", "GARANSI">>, <<"KREDIT", "LOKAL">>, <<"TIME", "LOAN">>,
       <<"KREDIT", "MULTI">>, <<"MULTI", "FASILITAS">>,
       <<"TRUST", "RECEIPT">>, <<"LETTER", "OF", "CREDIT">>, <<"L/C">> >>

parse_facility_from_line_no_acc(s, acc_hint) ==
    LET dates == Dates(s)
        toks == Words(s)
        cur_idx == FirstWord(toks, CurTok, 1)
        left0 == Join(toks, 1, cur_idx - 1)
        I == {k \in 1..Len(left0) : left0[k] \in SectorTok}
        left == IF I = {} THEN left0 ELSE SubSeq(left0, 1, Min(I) - 1)
        K == {k \in 1..Len(FacilityKeys) : HasPhrase(left, FacilityKeys[k])}
        tail == SubSeq(left, Max({1, Len(left) - 3}), Len(left))
        fasilitas_guess == IF K # {} THEN FacilityKeys[Min(K)] ELSE tail
        plaf == IF cur_idx + 1 <= Len(toks)
                THEN parse_amount_token(toks[cur_idx + 1])
                ELSE NoAmount
    IN  IF acc_hint = "" THEN NoFac
        ELSE IF Len(dates) < 2 THEN NoFac
        \* re.search(r"\b(IDR|USD|CNY)\b", s)
        ELSE IF FirstIn(s, CurTok, 1) = 0 THEN NoFac
        ELSE IF HasAcc(s) THEN NoFac
        ELSE IF cur_idx = 0 THEN NoFac
        ELSE IF fasilitas_guess = << >> THEN NoFac
        ELSE [ok |-> TRUE, acc |-> acc_hint,
              fasilitas |-> normalize_fasilitas(fasilitas_guess),
              plafond |-> plaf,
              dt_akhir |-> parse_date(dates[Len(dates)])]

(***************************************************************************)
(* The physical lines the pages of the model are made of.                  *)
(***************************************************************************)
BorA == Ln(<<"5", "UTOMO", "(00018964777)">>)
BorB == Ln(<<"6", "SARI", "(00018964778)">>)
Fac1 == Ln(<<"1234567890", "BANK", "GARANSI", "IDR", "50000",
             "01-01-2023", "01-01-2024">>)
Fac2 == Ln(<<"9988776655", "OTHER", "FEE", "IDR", "70000",
             "01-01-2023", "01-02-2024">>)
NoAccFac == Ln(<<"TIME", "LOAN", "IDR", "70000", "01-01-2023", "01-02-2024">>)
BorFac == BorA \o Fac1
Stub == Ln(<<"LILIK", "SOESILOWATI">>)
\* officer-attribution lines
OffSeq == Ln(<<"1", "-", "LIE", "KEZIA", "(00009461155)">>)
OffWrap == Ln(<<"-", "LIE", "KEZIA", "(00009461155)", "DISTRIBUSI", "BARANG">>)
OffAmp == Ln(<<"-", "LIE", "&", "KEZIA", "(00009461155)">>)
Banner == Ln(<<"CABANG", "KUDUS">>)
\* identity lines with facility words in front of the identity number
BorMulti == Ln(<<"5", "UTOMO", "MULTI", "FASILITAS", "(00018964777)">>)
BorBad == Ln(<<"5", "UTOMO", "BANK", "GARANSI", "(00018964777)">>)
\* facility lines whose last date is no calendar date
FacBadDate == Ln(<<"9988776655", "OTHER", "FEE", "IDR", "70000",
                   "01-01-2023", "31-02-2024">>)
NoAccBadDate == Ln(<<"TIME", "LOAN", "IDR", "70000", "01-01-2023",
                     "31-02-2024">>)

OfficerLines == {OffSeq, OffWrap, OffAmp}
LineVocab == {BorA, BorB, Fac1, Fac2, NoAccFac, BorFac, Stub, Banner,
              BorMulti, BorBad, FacBadDate, NoAccBadDate}
                 \cup OfficerLines

\* the lines _merge_wrapped is applied to on its own
LcFac == Ln(<<"1234567890", "L/C", "CNY", "50000">>)
LcFull == Ln(<<"1234567890", "L/C", "CNY", "50000", "01-01-2023",
               "01-01-2024">>)
FacHead == Ln(<<"9988776655", "OTHER", "FEE">>)
FacTail == Ln(<<"IDR", "70000", "01-01-2023", "01-02-2024">>)
OffNoCif == Ln(<<"-", "LIE", "KEZIA">>)
CifLine == Ln(<<"(00018964777)", "PETERNAKAN", "SAPI">>)
AOHdr == Ln(<<"20810", "-", "KONDANG", "UTOMO">>)
MergeVocab == {Stub, OffWrap, OffNoCif, CifLine, BorA, BorB, Fac1, LcFac,
               LcFull, FacHead, FacTail, AOHdr, << >>}

\* the sequences of at most n lines of V
RECURSIVE SeqsUpTo(_, _)
SeqsUpTo(V, n) ==
    IF n = 0 THEN {<< >>}
    ELSE LET S == SeqsUpTo(V, n - 1)
         IN  S \cup {Append(p, l) : p \in S, l \in V}

(***************************************************************************)
(* parse_pdfs_to_raw: the record assembler                                 *)
(***************************************************************************)
\* pdf_path.name of the documents of a call, and cabang_from_filename
\* (re.search(r"SME[\s_\-]*([A-Z]{3})", name)) on these names
FileName(d) ==
    CASE d = 1 -> "SME_KDS.PDF"
      [] d = 2 -> "SME_SMG.PDF"
      [] OTHER -> "LAPORAN.PDF"

cabang_from_filename(name) ==
    CASE name = "SME_KDS.PDF" -> "KDS"
      [] name = "SME_SMG.PDF" -> "SMG"
      [] OTHER -> ""

\* raw_lines without noise, split, then merged
page_lines(p) ==
    merge_wrapped(split_embedded_borrowers(
        SelectSeq(p, LAMBDA l : ~is_noise(l))))

is_ao_line(ln) == ln[1].w = "-" /\ HasCif(ln)

\* mutant of update_borrower: the identity number is assigned also when the
\* name is empty
update_borrower_takes_cif(ln, cur) ==
    IF HasCif(ln) /\ ~is_ao_line(ln)
    THEN LET b == derive_name_and_cif(ln)
         IN  IF b.name # << >> /\ b.cif # "" THEN b
             ELSE [name |-> cur.name, cif |-> b.cif]
    ELSE cur

\* (A) the borrower state after the line
update_borrower(ln, cur) ==
    IF HasCif(ln) /\ ~is_ao_line(ln)
    THEN LET b == derive_name_and_cif(ln)
         IN  IF b.name # << >> /\ b.cif # "" THEN b ELSE cur
    ELSE cur

\* (B) the facility of the line
parse_line(ln, hint) ==
    LET fac == parse_facility_from_line(ln)
    IN  IF fac.ok THEN fac ELSE parse_facility_from_line_no_acc(ln, hint)

\* mutant of emits: the record is appended without an active borrower
emits_without_borrower(fac, cur) == fac.ok

emits(fac, cur) == fac.ok /\ cur.name # << >> /\ cur.cif # ""

\* mutant of next_hint: the hint follows every parsed facility
next_hint_on_parse(fac, cur, hint) == IF fac.ok THEN fac.acc ELSE hint

\* last_acc after the line: the account number of the record just emitted
next_hint(fac, cur, hint) == IF emits(fac, cur) THEN fac.acc ELSE hint

make_row(fac, cur, d) ==
    [Nama |-> Append(cur.name, cur.cif),
     ACC |-> fac.acc,
     Cabang |-> cabang_from_filename(FileName(d)),
     Fasilitas |-> fac.fasilitas,
     Plafond |-> fac.plafond,
     Tgl |-> fac.dt_akhir,
     SumberFile |-> FileName(d),
     IsPriority |-> is_priority_facility(fac.fasilitas)]

\* df["Nama"].str.replace(r"^\s*-\s*", "", regex=True)
clean_nama(r) ==
    IF r.Nama # << >> /\ r.Nama[1] = "-" THEN [r EXCEPT !.Nama = Tail(@)] ELSE r

DedupKey(r) == <<r.Nama, r.ACC, r.Fasilitas, r.Plafond, r.Tgl>>

\* mutant of drop_duplicates: keep="last"
RECURSIVE drop_duplicates_keep_last(_)
drop_duplicates_keep_last(rs) ==
    IF rs = << >> THEN << >>
    ELSE IF \E k \in 2..Len(rs) : DedupKey(rs[k]) = DedupKey(rs[1])
         THEN drop_duplicates_keep_last(Tail(rs))
         ELSE <<rs[1]>> \o drop_duplicates_keep_last(Tail(rs))

\* df.drop_duplicates(subset=[...], keep="first")
RECURSIVE drop_duplicates(_)
drop_duplicates(rs) ==
    IF rs = << >> THEN << >>
    ELSE LET n == Len(rs)
             init == SubSeq(rs, 1, n - 1)
         IN  IF \E k \in 1..(n - 1) : DedupKey(rs[k]) = DedupKey(rs[n])
             THEN drop_duplicates(init)
             ELSE Append(drop_duplicates(init), rs[n])

finish_frame(rs) ==
    drop_duplicates([k \in 1..Len(rs) |-> clean_nama(rs[k])])

\* for page in pdf.pages: the lines of the page are shaped
OpenPage ==
    /\ pc = "open"
    /\ lines' = page_lines(page)
    /\ idx' = 1
    /\ pc' = "scan"
    /\ UNCHANGED <<doc, page, current_name, current_cif, last_acc, rows, df,
                   raw, pri, non, web>>

\* mutant of ProcessLine: the record is made before the borrower state is
\* updated
ProcessLine_emits_first ==
    /\ pc = "scan"
    /\ idx <= Len(lines)
    /\ LET ln == lines[idx]
           cur == [name |-> current_name, cif |-> current_cif]
           new == update_borrower(ln, cur)
           fac == parse_line(ln, last_acc)
       IN  IF is_noise(ln)
           THEN UNCHANGED <<current_name, current_cif, last_acc, rows>>
           ELSE /\ current_name' = new.name
                /\ current_cif' = new.cif
                /\ rows' = IF emits(fac, cur)
                           THEN Append(rows, make_row(fac, cur, doc))
                           ELSE rows
                /\ last_acc' = next_hint(fac, cur, last_acc)
    /\ idx' = idx + 1
    /\ UNCHANGED <<pc, doc, page, lines, df, raw, pri, non, web>>

\* for ln in lines: one iteration of the assembly loop
ProcessLine ==
    /\ pc = "scan"
    /\ idx <= Len(lines)
    /\ LET ln == lines[idx]
           cur == [name |-> current_name, cif |-> current_cif]
           new == update_borrower(ln, cur)
           fac == parse_line(ln, last_acc)
       IN  IF is_noise(ln)
           THEN UNCHANGED <<current_name, current_cif, last_acc, rows>>
           ELSE /\ current_name' = new.name
                /\ current_cif' = new.cif
                /\ rows' = IF emits(fac, new)
                           THEN Append(rows, make_row(fac, new, doc))
                           ELSE rows
                /\ last_acc' = next_hint(fac, new, last_acc)
    /\ idx' = idx + 1
    /\ UNCHANGED <<pc, doc, page, lines, df, raw, pri, non, web>>

\* for pdf_path in pdf_paths: the next document of the call is opened
NextDocument ==
    /\ pc = "scan"
    /\ idx > Len(lines)
    /\ doc < MaxDocs
    /\ \E p \in SeqsUpTo(LineVocab, MaxDocLines) : page' = p
    /\ doc' = doc + 1
    /\ pc' = "open"
    /\ UNCHANGED <<lines, idx, current_name, current_cif, last_acc, rows, df,
                   raw, pri, non, web>>

\* the frame is built, cleaned and deduplicated
Finish ==
    /\ pc = "scan"
    /\ idx > Len(lines)
    /\ df' = finish_frame(rows)
    /\ pc' = "done"
    /\ UNCHANGED <<doc, page, lines, idx, current_name, current_cif, last_acc,
                   rows, raw, pri, non, web>>

\* lines = _merge_wrapped(raw_lines), applied to a list of cleaned lines
MergeWrapped ==
    /\ pc = "merge"
    /\ lines' = merge_wrapped(page)
    /\ pc' = "merged"
    /\ UNCHANGED <<doc, page, idx, current_name, current_cif, last_acc, rows,
                   df, raw, pri, non, web>>

(***************************************************************************)
(* excel_datamaster.py: _split_priority, _sort_block_style, build_outputs  *)
(***************************************************************************)
\* d.groupby("Nama")["IsPriority"].any()
HasPriority(d, nama) ==
    \E k \in 1..Len(d) : d[k].Nama = nama /\ d[k].IsPriority

\* mutant of split_priority: the split is made record by record
split_by_record(d) ==
    [pri |-> SelectSeq(d, LAMBDA r : r.IsPriority),
     non |-> SelectSeq(d, LAMBDA r : ~r.IsPriority)]

split_priority(d) ==
    [pri |-> SelectSeq(d, LAMBDA r : HasPriority(d, r.Nama) /\ r.IsPriority),
     non |-> SelectSeq(d, LAMBDA r : ~HasPriority(d, r.Nama))]

\* the order of str on the words of names, facility types and account
\* numbers (the words in ascending order)
WordOrder == <<"(00018964777)", "(00018964778)", "1234567890", "9988776655",
               "FEE", "LOAN", "OTHER", "SARI", "TIME", "UTOMO">>
WordRank(w) == CHOOSE k \in 1..Len(WordOrder) : WordOrder[k] = w

\* a < b for two texts given as sequences of words
RECURSIVE StrLess(_, _)
StrLess(a, b) ==
    IF b = << >> THEN FALSE
    ELSE IF a = << >> THEN TRUE
    ELSE IF Head(a) = Head(b) THEN StrLess(Tail(a), Tail(b))
    ELSE WordRank(Head(a)) < WordRank(Head(b))

\* mutant of DateLess: absent dates are placed first
DateLess_absent_first(a, b) == a < b

\* a < b for two dates, na_position="last"
DateLess(a, b) == a # NoDate /\ (b = NoDate \/ a < b)

\* df.groupby("Nama")["Tgl PMK/PK Akhir"].min(): absent dates are skipped
Debitur_Earliest(d, nama) ==
    LET D == {d[k].Tgl : k \in {k \in 1..Len(d) : d[k].Nama = nama}} \ {NoDate}
    IN  IF D = {} THEN NoDate ELSE Min(D)

\* mutant of RowLess: the borrower name is not a sort key
RowLess_no_name(d, r, q) ==
    LET er == Debitur_Earliest(d, r.Nama)
        eq == Debitur_Earliest(d, q.Nama)
    IN  IF er # eq THEN DateLess(er, eq)
        ELSE IF r.Tgl # q.Tgl THEN DateLess(r.Tgl, q.Tgl)
        ELSE IF r.Fasilitas # q.Fasilitas THEN StrLess(r.Fasilitas, q.Fasilitas)
        ELSE StrLess(<<r.ACC>>, <<q.ACC>>)

\* the rows compared on ["Debitur_Earliest", "Nama", "Tgl PMK/PK Akhir",
\* "Fasilitas", "ACC No"]
RowLess(d, r, q) ==
    LET er == Debitur_Earliest(d, r.Nama)
        eq == Debitur_Earliest(d, q.Nama)
    IN  IF er # eq THEN DateLess(er, eq)
        ELSE IF r.Nama # q.Nama THEN StrLess(r.Nama, q.Nama)
        ELSE IF r.Tgl # q.Tgl THEN DateLess(r.Tgl, q.Tgl)
        ELSE IF r.Fasilitas # q.Fasilitas THEN StrLess(r.Fasilitas, q.Fasilitas)
        ELSE StrLess(<<r.ACC>>, <<q.ACC>>)

\* a stable sort (kind="mergesort"): r goes behind the rows not greater than it
RECURSIVE InsertRow(_, _, _)
InsertRow(d, sorted, r) ==
    IF sorted = << >> THEN <<r>>
    ELSE IF RowLess(d, r, Head(sorted)) THEN <<r>> \o sorted
    ELSE <<Head(sorted)>> \o InsertRow(d, Tail(sorted), r)

RECURSIVE SortRows(_, _)
SortRows(d, n) ==
    IF n = 0 THEN << >> ELSE InsertRow(d, SortRows(d, n - 1), d[n])

sort_block_style(d) == SortRows(d, Len(d))

\* pri, non = _split_priority(df)
SplitPriority ==
    /\ pc = "agg"
    /\ pri' = split_priority(raw).pri
    /\ non' = split_priority(raw).non
    /\ pc' = "split"
    /\ UNCHANGED <<doc, page, lines, idx, current_name, current_cif, last_acc,
                   rows, df, raw, web>>

\* pri = _sort_block_style(pri)
SortPri ==
    /\ pc = "split"
    /\ pri' = sort_block_style(pri)
    /\ pc' = "sortpri"
    /\ UNCHANGED <<doc, page, lines, idx, current_name, current_cif, last_acc,
                   rows, df, raw, non, web>>

\* non = _sort_block_style(non)
SortNon ==
    /\ pc = "sortpri"
    /\ non' = sort_block_style(non)
    /\ pc' = "built"
    /\ UNCHANGED <<doc, page, lines, idx, current_name, current_cif, last_acc,
                   rows, df, raw, pri, web>>

(***************************************************************************)
(* main.py: process_job, job_status, download                              *)
(***************************************************************************)
MaxDay == 9        \* days the clock runs
MaxTokens == 3     \* tokens drawn by the requests that run as threads

\* timedelta(days=7)
TTL == 7

JobIds == {"job1"}

\* the threads of the worker pool that serve requests
Requests == {"r1", "r2"}

\* a thread that serves no request
IdleRequest ==
    [at |-> "idle", job |-> "", path |-> << >>, used |-> 0, pos |-> 0,
     full |-> 0, token |-> 0]

full_path(job_id) == <<"FULL", job_id, "gabungan.xlsx">>
zip_path(job_id) == <<"FULL", job_id, "per-bulan.zip">>

\* str(uuid.uuid4()): a token that was never drawn before
uuid4(drawn) == Cardinality(drawn) + 1

\* token_for(path) on the dictionary T: the token, the dictionary after the
\* call and the tokens drawn so far
token_for(T, drawn, path) ==
    LET old == {t \in DOMAIN T : T[t].path = path}
        t == uuid4(drawn)
    IN  IF old # {}
        THEN [token |-> CHOOSE o \in old : \A q \in old : o <= q,
              T |-> T, drawn |-> drawn]
        ELSE [token |-> t,
              T |-> [q \in DOMAIN T \cup {t} |->
                        IF q = t THEN [path |-> path, expires_at |-> now + TTL]
                                 ELSE T[q]],
              drawn |-> drawn \cup {t}]

\* the status code download(token) answers with
download_code(T, token) ==
    IF token \notin DOMAIN T THEN 404
    ELSE IF now > T[token].expires_at THEN 410
    ELSE IF T[token].path \notin files THEN 404
    ELSE 200

\* process_job: build_outputs writes the two files of the job
ProcessJob ==
    /\ pc = "web"
    /\ \E j \in JobIds :
          /\ full_path(j) \notin files
          /\ files' = files \cup {full_path(j), zip_path(j)}
    /\ UNCHANGED <<engine, now, TOKENS, links, resp, req>>

\* GET /api/jobs/{job_id}
JobStatus ==
    /\ pc = "web"
    /\ \E j \in JobIds :
          IF ~(full_path(j) \in files /\ zip_path(j) \in files)
          THEN /\ resp' = [op |-> "job_status", status |-> "processing"]
               /\ UNCHANGED <<TOKENS, links>>
          ELSE LET a == token_for(TOKENS, DOMAIN links, full_path(j))
                   b == token_for(a.T, a.drawn, zip_path(j))
               IN  /\ TOKENS' = b.T
                   /\ links' = [t \in b.drawn |->
                                   IF t \in {a.token, b.token} THEN now
                                   ELSE links[t]]
                   /\ resp' = [op |-> "job_status", status |-> "done",
                               download_full |-> a.token,
                               download_zip |-> b.token]
    /\ UNCHANGED <<engine, now, files, req>>

\* GET /download/{token}
Download ==
    /\ pc = "web"
    /\ \E token \in 1..(Cardinality(DOMAIN links) + 1) :
          /\ resp' = [op |-> "download", token |-> token,
                      code |-> download_code(TOKENS, token)]
          /\ TOKENS' = IF token \in DOMAIN TOKENS
                          /\ now > TOKENS[token].expires_at
                       THEN [q \in DOMAIN TOKENS \ {token} |-> TOKENS[q]]
                       ELSE TOKENS
    /\ UNCHANGED <<engine, now, files, links, req>>

\* a day passes
Tick ==
    /\ pc = "web"
    /\ now < MaxDay
    /\ now' = now + 1
    /\ UNCHANGED <<engine, TOKENS, files, links, resp, req>>

(***************************************************************************)
(* job_status and download as the threads of the worker pool run them: both *)
(* are plain functions, so each request runs in a thread of its own and the *)
(* threads interleave between the accesses to TOKENS.                       *)
(*   at = "idle"    no request is running in the thread                     *)
(*        "iter"    in the loop of token_for over TOKENS.items()            *)
(*        "insert"  after the loop, before TOKENS[t] = ...                  *)
(*        "call"    token_for(full_path) returned, token_for(zip_path) is   *)
(*                  about to be called                                      *)
(*        "pop"     download found the token expired, before TOKENS.pop     *)
(***************************************************************************)
\* the job is done, TOKENS.items() is called: the iterator keeps the size
\* of the dictionary and its position
StatusCall(r) ==
    /\ pc = "threads"
    /\ req[r].at = "idle"
    /\ \E j \in JobIds :
          IF ~(full_path(j) \in files /\ zip_path(j) \in files)
          THEN /\ resp' = [op |-> "job_status", status |-> "processing"]
               /\ UNCHANGED req
          ELSE /\ req' = [req EXCEPT ![r] =
                            [at |-> "iter", job |-> j, path |-> full_path(j),
                             used |-> Cardinality(DOMAIN TOKENS), pos |-> 0,
                             full |-> 0, token |-> 0]]
               /\ UNCHANGED resp
    /\ UNCHANGED <<engine, now, TOKENS, files, links>>

\* return t of token_for: after the first call the second call follows,
\* after the second the response is sent
Returned(r, t) ==
    IF req[r].path = full_path(req[r].job)
    THEN /\ req' = [req EXCEPT ![r].at = "call", ![r].full = t]
         /\ UNCHANGED resp
    ELSE /\ req' = [req EXCEPT ![r] = IdleRequest]
         /\ resp' = [op |-> "job_status", status |-> "done",
                     download_full |-> req[r].full, download_zip |-> t]

\* one iteration of "for t, meta in TOKENS.items()": the iterator raises
\* RuntimeError when the dictionary changed size, else it gives the next
\* entry in insertion order
TokenIterNext(r) ==
    /\ pc = "threads"
    /\ req[r].at = "iter"
    /\ LET rest == {t \in DOMAIN TOKENS : t > req[r].pos}
           t == Min(rest)
       IN  IF Cardinality(DOMAIN TOKENS) # req[r].used
           THEN /\ req' = [req EXCEPT ![r] = IdleRequest]
                /\ resp' = [op |-> "job_status", status |-> "error"]
           ELSE IF rest = {}
           THEN /\ req' = [req EXCEPT ![r].at = "insert"]
                /\ UNCHANGED resp
           ELSE IF TOKENS[t].path = req[r].path
           THEN Returned(r, t)
           ELSE /\ req' = [req EXCEPT ![r].pos = t]
                /\ UNCHANGED resp
    /\ UNCHANGED <<engine, now, TOKENS, files, links>>

\* t = str(uuid.uuid4()); TOKENS[t] = {...}; return t
TokenInsert(r) ==
    /\ pc = "threads"
    /\ req[r].at = "insert"
    /\ Cardinality(DOMAIN links) < MaxTokens
    /\ LET t == uuid4(DOMAIN links)
       IN  /\ TOKENS' = [q \in DOMAIN TOKENS \cup {t} |->
                            IF q = t THEN [path |-> req[r].path,
                                           expires_at |-> now + TTL]
                            ELSE TOKENS[q]]
           /\ links' = [q \in DOMAIN links \cup {t} |->
                           IF q = t THEN now ELSE links[q]]
           /\ Returned(r, t)
    /\ UNCHANGED <<engine, now, files>>

\* token_for(zip_path) is called: TOKENS.items() anew
TokenCall(r) ==
    /\ pc = "threads"
    /\ req[r].at = "call"
    /\ req' = [req EXCEPT ![r].at = "iter",
                          ![r].path = zip_path(req[r].job),
                          ![r].used = Cardinality(DOMAIN TOKENS),
                          ![r].pos = 0]
    /\ UNCHANGED <<engine, now, TOKENS, files, links, resp>>

\* meta = TOKENS.get(token) and the tests on meta, up to TOKENS.pop
DownloadGet(r) ==
    /\ pc = "threads"
    /\ req[r].at = "idle"
    /\ \E token \in 1..(Cardinality(DOMAIN links) + 1) :
          IF token \in DOMAIN TOKENS /\ now > TOKENS[token].expires_at
          THEN /\ req' = [req EXCEPT ![r] =
                            [IdleRequest EXCEPT !.at = "pop",
                                                !.token = token]]
               /\ UNCHANGED resp
          ELSE /\ resp' = [op |-> "download", token |-> token,
                           code |-> download_code(TOKENS, token)]
               /\ UNCHANGED req
    /\ UNCHANGED <<engine, now, TOKENS, files, links>>

\* TOKENS.pop(token, None); raise HTTPException(410)
DownloadPop(r) ==
    /\ pc = "threads"
    /\ req[r].at = "pop"
    /\ TOKENS' = [q \in DOMAIN TOKENS \ {req[r].token} |-> TOKENS[q]]
    /\ resp' = [op |-> "download", token |-> req[r].token, code |-> 410]
    /\ req' = [req EXCEPT ![r] = IdleRequest]
    /\ UNCHANGED <<engine, now, files, links>>

\* build_outputs writes the two files of the job
ThreadProcessJob ==
    /\ pc = "threads"
    /\ \E j \in JobIds :
          /\ full_path(j) \notin files
          /\ files' = files \cup {full_path(j), zip_path(j)}
    /\ UNCHANGED <<engine, now, TOKENS, links, resp, req>>

\* a day passes
ThreadTick ==
    /\ pc = "threads"
    /\ now < MaxDay
    /\ now' = now + 1
    /\ UNCHANGED <<engine, TOKENS, files, links, resp, req>>

(***************************************************************************)
(* Specifications                                                          *)
(***************************************************************************)
Idle == /\ lines = << >> /\ idx = 1
        /\ current_name = << >> /\ current_cif = "" /\ last_acc = ""
        /\ rows = << >> /\ df = << >> /\ pri = << >> /\ non = << >>
        /\ now = 0 /\ TOKENS = << >> /\ files = {} /\ links = << >>
        /\ resp = [op |-> "none"]
        /\ req = [r \in Requests |-> IdleRequest]

\* one document of one page
Init ==
    /\ pc = "open" /\ doc = 1
    /\ page \in SeqsUpTo(LineVocab, MaxLines)
    /\ raw = << >>
    /\ Idle

Next == OpenPage \/ ProcessLine \/ Finish

Spec == Init /\ [][Next]_vars

\* several documents in one call
InitDocs ==
    /\ pc = "open" /\ doc = 1
    /\ page \in SeqsUpTo(LineVocab, MaxDocLines)
    /\ raw = << >>
    /\ Idle

NextDocs == OpenPage \/ ProcessLine \/ NextDocument \/ Finish

SpecDocs == InitDocs /\ [][NextDocs]_vars

\* the record sets handed to the aggregation stage
AggNames == {<<"SARI", "(00018964778)">>, <<"UTOMO", "(00018964777)">>}
AggTypes == {<<"TIME", "LOAN">>, <<"OTHER", "FEE">>}
AggDates == {NoDate, 20240101, 20240201}
AggRecords ==
    {[Nama |-> n, ACC |-> a, Cabang |-> "KDS", Fasilitas |-> f,
      Plafond |-> "50000", Tgl |-> t, SumberFile |-> "SME_KDS.PDF",
      IsPriority |-> is_priority_facility(f)] :
        n \in AggNames, a \in AccTok, f \in AggTypes, t \in AggDates}

InitAgg ==
    /\ pc = "agg" /\ doc = 1 /\ page = << >>
    /\ raw \in SeqsUpTo(AggRecords, MaxRecs)
    /\ Idle

NextAgg == SplitPriority \/ SortPri \/ SortNon

SpecAgg == InitAgg /\ [][NextAgg]_vars

\* _merge_wrapped on its own
InitMerge ==
    /\ pc = "merge" /\ doc = 1
    /\ page \in SeqsUpTo(MergeVocab, MaxMergeLines)
    /\ raw = << >>
    /\ Idle

NextMerge == MergeWrapped

SpecMerge == InitMerge /\ [][NextMerge]_vars

\* the web service
InitWeb ==
    /\ pc = "web" /\ doc = 1 /\ page = << >>
    /\ raw = << >>
    /\ Idle

NextWeb == ProcessJob \/ JobStatus \/ Download \/ Tick

SpecWeb == InitWeb /\ [][NextWeb]_vars

\* the web service with two request threads
InitThreads ==
    /\ pc = "threads" /\ doc = 1 /\ page = << >>
    /\ raw = << >>
    /\ Idle

NextThreads ==
    \/ ThreadProcessJob
    \/ ThreadTick
    \/ \E r \in Requests :
          \/ StatusCall(r)
          \/ TokenIterNext(r)
          \/ TokenInsert(r)
          \/ TokenCall(r)
          \/ DownloadGet(r)
          \/ DownloadPop(r)

SpecThreads == InitThreads /\ [][NextThreads]_vars

(***************************************************************************)
(* Properties of the engine                                                *)
(***************************************************************************)
\* every account number is printed at most once on the page
AccPrintedOnce(p) ==
    \A a \in AccTok :
        Cardinality({<<i, k>> \in (1..Len(p)) \X (1..7) :
                        k <= Len(p[i]) /\ p[i][k].w = a}) <= 1

\* the text before the identity number is a hyphen-prefixed officer name,
\* with or without a leading sequence number
OfficerShaped(l) ==
    /\ l # << >>
    /\ LET h == IF l[1].w \in SeqTok THEN 2 ELSE 1
       IN  /\ FirstIn(l, CifTok, 1) > h + 1
           /\ l[h].w = "-"

NoOfficerLine(p) == \A i \in 1..Len(p) : ~OfficerShaped(p[i])

\* C1: in the full output no account number appears with two different
\* borrower display names; stated for the pages that print every account
\* number once and hold no officer line
C1_Uniqueness ==
    (pc = "done" /\ AccPrintedOnce(page) /\ NoOfficerLine(page)) =>
        \A i, j \in 1..Len(df) :
            df[i].ACC = df[j].ACC => df[i].Nama = df[j].Nama

\* a sequence number, a name and a parenthesized identity number
IsIdentityLine(l) ==
    /\ Len(l) = 3
    /\ l[1].w \in SeqTok /\ l[2].w \in LetterTok /\ l[3].w \in CifTok

\* a leading account number, a facility type, a currency code, an amount
\* and two dates
IsCompleteFacility(l) ==
    /\ Len(l) >= 6
    /\ l[1].w \in AccTok
    /\ \A k \in 2..(Len(l) - 4) : l[k].w \in LetterTok \ CurTok
    /\ l[Len(l) - 3].w \in CurTok
    /\ l[Len(l) - 2].w \in AmtTok
    /\ l[Len(l) - 1].w \in DateTok /\ l[Len(l)].w \in DateTok

WellFormedPage(p) ==
    \A k \in 1..Len(p) : IsIdentityLine(p[k]) \/ IsCompleteFacility(p[k])

\* the display name of the nearest identity line at or before line k
BorrowerAt(p, k) ==
    LET I == {i \in 1..k : IsIdentityLine(p[i])}
    IN  IF I = {} THEN << >> ELSE <<p[Max(I)][2].w, p[Max(I)][3].w>>

\* C2: on a page of well-formed identity lines and complete facility lines
\* every record carries the borrower of the nearest identity line at or
\* before its facility line, and the last identity line of the page is the
\* active context at the end of the page
C2_NearestBorrower ==
    (pc = "done" /\ WellFormedPage(page)) =>
        /\ \A r \in 1..Len(rows) :
              \E k \in 1..Len(page) :
                  /\ IsCompleteFacility(page[k])
                  /\ page[k][1].w = rows[r].ACC
                  /\ rows[r].Nama = BorrowerAt(page, k)
        /\ IF BorrowerAt(page, Len(page)) = << >>
           THEN current_name = << >> /\ current_cif = ""
           ELSE Append(current_name, current_cif) = BorrowerAt(page, Len(page))

\* C3: the borrower context and the carried hint are empty at the start of
\* each document of a call
C3_DocumentIsolation ==
    pc = "open" => (current_name = << >> /\ current_cif = "" /\ last_acc = "")

\* C4: without an active borrower no record is appended, and every record
\* has a non-empty borrower name and a non-empty identity number
C4_RecordNeedsBorrower ==
    /\ (current_name = << >> \/ current_cif = "") => rows = << >>
    /\ \A k \in 1..Len(rows) :
          /\ Len(rows[k].Nama) >= 2
          /\ rows[k].Nama[1] # ""
          /\ rows[k].Nama[Len(rows[k].Nama)] \in CifTok

\* a line that parses as a facility was scanned before any borrower was
\* extracted, and no record was appended
C4_Witness ==
    /\ pc = "scan" /\ idx > 1
    /\ parse_facility_from_line(lines[idx - 1]).ok
    /\ current_name = << >> /\ rows = << >>

\* the line the splitter makes of one officer-attribution line
OfficerImage(l) ==
    \E o \in LineVocab : OfficerShaped(o) /\ split_one(o) = <<l>>

\* C5: the assembly step of an officer-attribution line leaves the borrower
\* context as it was, and no borrower display starts with a hyphen
C5_OfficerLineInert ==
    /\ [][(pc = "scan" /\ idx <= Len(lines) /\ OfficerImage(lines[idx]))
            => (current_name' = current_name /\ current_cif' = current_cif)]_vars
    /\ [](\A k \in 1..Len(rows) : rows[k].Nama[1] # "-")

\* the account number of the last of the first n lines on which facility
\* parsing succeeded ("" when there is none)
RECURSIVE LastParsedAcc(_, _)
LastParsedAcc(ls, n) ==
    IF n = 0 THEN ""
    ELSE LET h == LastParsedAcc(ls, n - 1)
             fac == parse_line(ls[n], h)
         IN  IF ~is_noise(ls[n]) /\ fac.ok THEN fac.acc ELSE h

\* C6 as stated: the hint used at a line is the account number of the most
\* recent earlier line on which facility parsing succeeded
C6_HintIsLastParsed ==
    pc = "scan" => last_acc = LastParsedAcc(lines, idx - 1)

\* a line without an account number that has a currency code and two dates
HintedLine(l) ==
    ~HasAcc(l) /\ FirstIn(l, CurTok, 1) # 0 /\ Len(Dates(l)) >= 2

\* C6 as amended: the hint is the account number of the most recent emitted
\* record, and the record emitted for a line without an account number
\* carries the hint
C6_HintIsLastEmitted ==
    /\ [](last_acc = IF rows = << >> THEN "" ELSE rows[Len(rows)].ACC)
    /\ [][(pc = "scan" /\ idx <= Len(lines) /\ HintedLine(lines[idx])
             /\ rows' # rows)
            => (Len(rows') = Len(rows) + 1
                  /\ rows'[Len(rows')].ACC = last_acc)]_vars

\* a record was emitted for a line without an account number
C6_Witness ==
    /\ pc = "scan" /\ idx > 1
    /\ HintedLine(lines[idx - 1])
    /\ Len(rows) >= 2
    /\ parse_line(lines[idx - 1], rows[Len(rows) - 1].ACC).ok
    /\ rows[Len(rows)].ACC = rows[Len(rows) - 1].ACC

\* borrower display, account number, facility type, amount, maturity date
ClaimKey(r) == <<r.Nama, r.ACC, r.Fasilitas, r.Plafond, r.Tgl>>

\* the records that are the first with their tuple
FirstOccurrences(rs) ==
    {i \in 1..Len(rs) : \A j \in 1..(i - 1) : ClaimKey(rs[j]) # ClaimKey(rs[i])}

\* C7: the output holds the first occurrence of each tuple and no other
\* record, in the order of the input
C7_Dedup ==
    pc = "done" =>
        LET F == FirstOccurrences(rows)
        IN  /\ Len(df) = Cardinality(F)
            /\ \A i \in F : df[Cardinality({j \in F : j <= i})] = rows[i]

\* a repeated record was dropped and two distinct records were kept
C7_Witness == pc = "done" /\ Len(df) < Len(rows) /\ Len(df) >= 2

(***************************************************************************)
(* Properties of the aggregation                                           *)
(***************************************************************************)
RowsOf(d, nama) == SelectSeq(d, LAMBDA r : r.Nama = nama)

NamesOf(d) == {d[k].Nama : k \in 1..Len(d)}

\* C8: a borrower is in the priority view exactly when one of its records
\* is a priority facility, and then with its priority records only; every
\* other borrower is in the non-priority view with all its records; the
\* views share no borrower and hold records of the input only
C8_PriorityPartition ==
    pc = "split" =>
        /\ NamesOf(pri) \cup NamesOf(non) \subseteq NamesOf(raw)
        /\ NamesOf(pri) \cap NamesOf(non) = {}
        /\ \A n \in NamesOf(raw) :
              IF \E k \in 1..Len(raw) : raw[k].Nama = n /\ raw[k].IsPriority
              THEN /\ RowsOf(pri, n) =
                        SelectSeq(RowsOf(raw, n), LAMBDA r : r.IsPriority)
                   /\ RowsOf(non, n) = << >>
              ELSE /\ RowsOf(non, n) = RowsOf(raw, n)
                   /\ RowsOf(pri, n) = << >>

\* a borrower with a priority and a non-priority record next to a borrower
\* without priority records
C8_Witness ==
    /\ pc = "split"
    /\ pri # << >> /\ non # << >>
    /\ \E k \in 1..Len(raw) :
          ~raw[k].IsPriority /\ raw[k].Nama \in NamesOf(pri)

Contiguous(d) ==
    \A i, j, k \in 1..Len(d) :
        (i < j /\ j < k /\ d[i].Nama = d[k].Nama) => d[j].Nama = d[i].Nama

\* C9: in a sorted view the rows of one borrower are contiguous
C9_BlocksContiguous ==
    /\ pc \in {"sortpri", "built"} => Contiguous(pri)
    /\ pc = "built" => Contiguous(non)

\* three rows of two borrowers came interleaved, one without a date
C9_Witness ==
    /\ pc = "sortpri"
    /\ Len(pri) = 3 /\ ~Contiguous(raw)
    /\ \E k \in 1..3 : pri[k].Tgl = NoDate

\* a is not behind b among dates, the absent date being the last
DateNotAfter(a, b) == b = NoDate \/ (a # NoDate /\ a <= b)

\* the minimum date of the borrower over its rows in the view
MinDate(d, nama) ==
    LET D == {t \in {d[k].Tgl : k \in 1..Len(d)} :
                 t # NoDate /\ \E k \in 1..Len(d) : d[k].Nama = nama /\ d[k].Tgl = t}
    IN  IF D = {} THEN NoDate
        ELSE CHOOSE t \in D : \A u \in D : t <= u

\* r may stand before q
InOrder(d, r, q) ==
    LET er == MinDate(d, r.Nama)
        eq == MinDate(d, q.Nama)
    IN  \/ er # eq /\ DateNotAfter(er, eq)
        \/ er = eq /\ r.Nama # q.Nama /\ StrLess(r.Nama, q.Nama)
        \/ er = eq /\ r.Nama = q.Nama /\ r.Tgl # q.Tgl /\ DateNotAfter(r.Tgl, q.Tgl)
        \/ er = eq /\ r.Nama = q.Nama /\ r.Tgl = q.Tgl
              /\ r.Fasilitas # q.Fasilitas /\ StrLess(r.Fasilitas, q.Fasilitas)
        \/ er = eq /\ r.Nama = q.Nama /\ r.Tgl = q.Tgl
              /\ r.Fasilitas = q.Fasilitas /\ ~StrLess(<<q.ACC>>, <<r.ACC>>)

Ordered(d) == \A i, j \in 1..Len(d) : i < j => InOrder(d, d[i], d[j])

Permutation(a, b) ==
    /\ Len(a) = Len(b)
    /\ \A r \in {a[k] : k \in 1..Len(a)} \cup {b[k] : k \in 1..Len(b)} :
          Cardinality({k \in 1..Len(a) : a[k] = r})
            = Cardinality({k \in 1..Len(b) : b[k] = r})

\* C10: sorting a view permutes its rows and leaves the borrowers in the
\* order of their minimum dates (absent last), then of their names, and
\* the rows of a borrower in the order of date (absent last), facility
\* type and account number
C10_SortOrder ==
    [][/\ pc = "split" => (Ordered(pri') /\ Permutation(pri, pri'))
       /\ pc = "sortpri" => (Ordered(non') /\ Permutation(non, non'))]_vars

\* the sort moved rows of two borrowers, one row without a date
C10_Witness ==
    /\ pc = "built"
    /\ Len(non) = 3 /\ non # raw
    /\ Cardinality(NamesOf(non)) = 2
    /\ \E k \in 1..3 : non[k].Tgl = NoDate
    /\ \E k \in 1..3 : non[k].Tgl # NoDate

(***************************************************************************)
(* Properties of the engine, continued                                     *)
(***************************************************************************)
\* the facility-type keywords of normalize_fasilitas and of the hinted parser
FacilityKeywords ==
    {<<"BANK", "GARANSI">>, <<"KREDIT", "LOKAL">>, <<"TIME", "LOAN">>,
     <<"KREDIT", "MULTI">>, <<"MULTI", "FASILITAS">>, <<"TRUST", "RECEIPT">>,
     <<"LETTER", "OF", "CREDIT">>, <<"L/C">>}

\* the name holds a currency code, a date, an account number or a keyword
Contaminated(name) ==
    \/ HasWord(name, CurTok) \/ HasWord(name, DateTok) \/ HasWord(name, AccTok)
    \/ \E ph \in FacilityKeywords : HasPhrase(name, ph)

\* C11: neither the borrower context nor the borrower display of a record
\* holds a currency code, a date, an account number or a facility-type
\* keyword
C11_NoContamination ==
    /\ ~Contaminated(current_name)
    /\ \A k \in 1..Len(rows) : ~Contaminated(rows[k].Nama)

(***************************************************************************)
(* Properties of the web service                                           *)
(***************************************************************************)
\* C12: a link returned by job_status is accepted by download during the
\* seven days that follow the call, and a download of a token older than
\* seven days is answered with 410 and removes the token
C12_LinkValidSevenDays ==
    /\ [](pc = "web" =>
            \A t \in DOMAIN links :
                now <= links[t] + TTL => download_code(TOKENS, t) = 200)
    /\ [][(pc = "web" /\ resp'.op = "download" /\ resp' # resp
             /\ resp'.token \in DOMAIN TOKENS
             /\ now > TOKENS[resp'.token].expires_at)
            => (resp'.code = 410 /\ resp'.token \notin DOMAIN TOKENS')]_vars

(***************************************************************************)
(* Properties of the merger                                                *)
(***************************************************************************)
\* a is a run of consecutive tokens of b
Infix(a, b) ==
    \E k \in 0..(Len(b) - Len(a)) : SubSeq(b, k + 1, k + Len(a)) = a

\* the line has an account number and an L/C or LETTER OF CREDIT marker
LcLine(l) ==
    /\ \E k \in 1..Len(l) : l[k].w \in AccTok
    /\ \/ \E k \in 1..Len(l) : l[k].w = "L/C"
       \/ Infix(<<"LETTER", "OF", "CREDIT">>, Text(l))

\* C13: no line of the output holds a letter-of-credit facility line joined
\* with the line that follows it in the input
C13_LcNeverMerged ==
    pc = "merged" =>
        \A i \in 1..(Len(page) - 1) :
            (LcLine(page[i]) /\ page[i + 1] # << >>) =>
                \A k \in 1..Len(lines) : ~Infix(page[i] \o page[i + 1], lines[k])

(***************************************************************************)
(* Properties of the engine: hint, priority flag, dates, borrower update   *)
(***************************************************************************)
\* C14: the record emitted for a line without an account number carries an
\* account number whose last earlier record belongs to the same borrower
C14_HintOfSameBorrower ==
    [][(pc = "scan" /\ idx <= Len(lines) /\ HintedLine(lines[idx])
          /\ Len(rows') = Len(rows) + 1)
         => LET r == rows'[Len(rows')]
                K == {k \in 1..Len(rows) : rows[k].ACC = r.ACC}
            IN  K # {} /\ rows[Max(K)].Nama = r.Nama]_vars

(***************************************************************************)
(* Properties of the merger: rule 2, grouping                              *)
(***************************************************************************)
CountTok(l, T) == Cardinality({k \in 1..Len(l) : l[k].w \in T})

NoCifAccDate(l) == CountTok(l, CifTok \cup AccTok \cup DateTok) = 0

\* at least two alphabetic tokens, no fewer alphabetic than numeric tokens,
\* no identity number, no account number, no date
BareFragment(l) ==
    /\ CountTok(l, LetterFirstTok) >= 2
    /\ CountTok(l, LetterFirstTok) >= CountTok(l, DigitTok)
    /\ NoCifAccDate(l)

StartsWith(l, T) == l # << >> /\ l[1].w \in T

\* the lines behind the first two
Rest(p) == SubSeq(p, 3, Len(p))

\* C15 as stated: a bare borrower fragment followed by a line that starts
\* with a hyphen, starts with an opening parenthesis or holds an identity
\* number is emitted with that line as one merged line
C15_Rule2AsStated ==
    (pc = "merged" /\ Len(page) >= 2 /\ BareFragment(page[1])
       /\ (StartsWith(page[2], {"-"}) \/ StartsWith(page[2], CifTok)
             \/ CountTok(page[2], CifTok) > 0))
      => \E m \in {page[1] \o page[2], strip_ao(page[1] \o page[2])} :
             lines = <<m>> \o merge_wrapped(Rest(page))

\* as BareFragment, the hyphen counted with the numeric tokens
BareFragmentHyphen(l) ==
    /\ CountTok(l, LetterFirstTok) >= 2
    /\ CountTok(l, LetterFirstTok) >= CountTok(l, DigitTok \cup {"-"})
    /\ NoCifAccDate(l)

\* C15 as amended: a bare borrower fragment without a leading number is
\* merged with the next line when that line holds an identity number, the
\* officer fragment in front of the identity number removed; a next line
\* without an identity number is left alone
C15_Rule2 ==
    (pc = "merged" /\ Len(page) >= 2 /\ BareFragmentHyphen(page[1])
       /\ ~StartsWith(page[1], DigitTok) /\ page[2] # << >>)
      => IF CountTok(page[2], CifTok) > 0
         THEN lines = <<strip_ao(page[1] \o page[2])>>
                          \o merge_wrapped(Rest(page))
         ELSE lines # << >> /\ lines[1] = page[1]

\* a fragment was merged with an officer line and the officer name removed
C15_Witness ==
    /\ pc = "merged" /\ Len(page) = 3
    /\ BareFragmentHyphen(page[1]) /\ StartsWith(page[2], {"-"})
    /\ CountTok(page[2], CifTok) > 0
    /\ lines # << >>
    /\ Len(lines[1]) < Len(page[1]) + Len(page[2])
    /\ Infix(page[1], lines[1])

\* the words of each line
WordsOf(ls) == [k \in 1..Len(ls) |-> [j \in 1..Len(ls[k]) |-> ls[k][j].w]]

NonEmpty(ls) == SelectSeq(ls, LAMBDA l : l # << >>)

RECURSIVE Concat(_)
Concat(ls) == IF ls = << >> THEN << >> ELSE Head(ls) \o Concat(Tail(ls))

\* c without a run of words that starts at a hyphen and ends in front of an
\* identity number
OfficerCuts(c) ==
    {SubSeq(c, 1, a - 1) \o SubSeq(c, b + 1, Len(c)) :
        <<a, b>> \in {x \in (1..Len(c)) \X (1..Len(c)) :
                        /\ x[1] < x[2]
                        /\ c[x[1]] = "-"
                        /\ x[2] < Len(c) /\ c[x[2] + 1] \in CifTok}}

\* the output lines a group of the first n lines may give
Heads(ls, n, cut) ==
    LET c == Concat(SubSeq(ls, 1, n))
    IN  {c} \cup (IF cut /\ n = 2 THEN OfficerCuts(c) ELSE {})

\* the outputs that group ls in order into groups of 1, 2 or 3 lines
RECURSIVE Outs(_, _)
Outs(ls, cut) ==
    IF ls = << >> THEN {<< >>}
    ELSE UNION {{<<h>> \o r : h \in Heads(ls, n, cut),
                              r \in Outs(SubSeq(ls, n + 1, Len(ls)), cut)} :
                   n \in 1..Min({3, Len(ls)})}

\* C16 as stated: the output is the non-empty lines of the input grouped in
\* order into groups of 1, 2 or 3 lines, each group joined into one line,
\* and is not longer than the input
C16_GroupsAsStated ==
    pc = "merged" =>
        /\ WordsOf(lines) \in Outs(WordsOf(NonEmpty(page)), FALSE)
        /\ Len(lines) <= Len(page)

\* C16 as amended: as stated, but the line of a group of two may lack the
\* officer fragment in front of its identity number
C16_Groups ==
    pc = "merged" =>
        /\ WordsOf(lines) \in Outs(WordsOf(NonEmpty(page)), TRUE)
        /\ Len(lines) <= Len(page)

\* three non-empty lines were joined into one
C16_Witness ==
    /\ pc = "merged"
    /\ Len(NonEmpty(page)) = 3 /\ Len(lines) = 1
    /\ lines[1] = Concat(page)

\* raw facility texts of up to two words
RawTypes ==
    LET W == {"KREDIT", "MULTI", "FASILITAS", "TL"}
    IN  {<< >>} \cup {<<a>> : a \in W} \cup {<<a, b>> : a \in W, b \in W}

\* C17: a record is flagged as priority exactly when its facility type is
\* one of the six canonical types, and the same holds of every raw text
\* once it is normalized
C17_PriorityIsMembership ==
    /\ \A k \in 1..Len(rows) :
          rows[k].IsPriority <=> rows[k].Fasilitas \in LISTED_FACILITIES
    /\ pc = "open" =>
          \A f \in RawTypes :
              LET t == normalize_fasilitas(f)
              IN  is_priority_facility(t) <=> t \in LISTED_FACILITIES

\* a record of a canonical type and a record of a free-text type that
\* normalize_fasilitas returns unchanged were emitted
C17_Witness ==
    /\ pc = "scan"
    /\ \E k \in 1..Len(rows) :
          rows[k].IsPriority /\ rows[k].Fasilitas = <<"BANK", "GARANSI">>
    /\ \E k \in 1..Len(rows) :
          /\ ~rows[k].IsPriority
          /\ rows[k].Fasilitas = normalize_fasilitas(<<"OTHER", "FEE">>)
          /\ rows[k].Fasilitas = <<"OTHER", "FEE">>

\* the date-shaped tokens that are calendar dates
CalendarDates == {"01-01-2023", "01-01-2024", "01-02-2024"}

\* the last date-shaped token of the line is no calendar date
BadLastDate(l) ==
    /\ Len(Dates(l)) >= 2
    /\ Dates(l)[Len(Dates(l))] \notin CalendarDates

\* the line with a calendar date in the place of its last date-shaped token
WithGoodDate(l) ==
    LET k == Max({i \in 1..Len(l) : l[i].w \in DateTok})
    IN  [l EXCEPT ![k].w = "01-02-2024"]

\* C18: when the last date-shaped token of a line is no calendar date, each
\* parser returns what it returns for the line with a calendar date in its
\* place, but with an absent maturity date, and the assembly step appends
\* that record when a borrower is active
C18_BadDateKeepsRecord ==
    [][(pc = "scan" /\ idx <= Len(lines) /\ ~is_noise(lines[idx])
          /\ BadLastDate(lines[idx]))
        => LET ln == lines[idx]
               twin == WithGoodDate(ln)
               f1 == parse_facility_from_line(ln)
               g1 == parse_facility_from_line(twin)
               f2 == parse_facility_from_line_no_acc(ln, last_acc)
               g2 == parse_facility_from_line_no_acc(twin, last_acc)
               g == IF g1.ok THEN g1 ELSE g2
               r == rows'[Len(rows')]
           IN  /\ g1.ok => f1 = [g1 EXCEPT !.dt_akhir = NoDate]
               /\ g2.ok => f2 = [g2 EXCEPT !.dt_akhir = NoDate]
               /\ g1.ok => g1.dt_akhir # NoDate
               /\ g2.ok => g2.dt_akhir # NoDate
               /\ idx' = idx + 1
               /\ (g.ok /\ current_name' # << >> /\ current_cif' # "")
                    => /\ Len(rows') = Len(rows) + 1
                       /\ SubSeq(rows', 1, Len(rows)) = rows
                       /\ r.Tgl = NoDate
                       /\ r.ACC = g.acc
                       /\ r.Fasilitas = g.fasilitas
                       /\ r.Plafond = g.plafond
                       /\ r.Nama = Append(current_name', current_cif')]_vars

\* a record with an absent maturity date was emitted by the parser of lines
\* with an account number, and then one by the parser of lines without
C18_Witness ==
    /\ pc = "scan" /\ idx > 2 /\ Len(rows) >= 2
    /\ BadLastDate(lines[idx - 2]) /\ HasAcc(lines[idx - 2])
    /\ BadLastDate(lines[idx - 1]) /\ HintedLine(lines[idx - 1])
    /\ rows[Len(rows) - 1].Tgl = NoDate
    /\ rows[Len(rows)].Tgl = NoDate
    /\ rows[Len(rows)].ACC = rows[Len(rows) - 1].ACC
    /\ rows[Len(rows)].Fasilitas = <<"TIME", "LOAN">>

\* the line has an identity number and extraction gives no name: the line
\* starts with a hyphen, or _derive_name_and_cif returns an empty name
ExtractionFails(l) ==
    /\ HasCif(l)
    /\ (l[1].w = "-" \/ derive_name_and_cif(l).name = << >>)

\* C19: the assembly step of a line with an identity number from which no
\* name is extracted leaves the active name and the active identity number
\* as they were, and changes the hint only to the account number of a record
\* it appends
C19_FailedExtractionInert ==
    [][(pc = "scan" /\ idx <= Len(lines) /\ ~is_noise(lines[idx])
          /\ ExtractionFails(lines[idx]))
        => /\ current_name' = current_name
           /\ current_cif' = current_cif
           /\ (rows' = rows => last_acc' = last_acc)
           /\ (rows' # rows => last_acc' = rows'[Len(rows')].ACC)]_vars

\* with a borrower active, a line whose name is rejected and whose identity
\* number is another one was scanned
C19_Witness ==
    /\ pc = "scan" /\ idx > 1
    /\ ExtractionFails(lines[idx - 1])
    /\ lines[idx - 1][1].w # "-"
    /\ derive_name_and_cif(lines[idx - 1]).cif # ""
    /\ current_name # << >>
    /\ current_cif # derive_name_and_cif(lines[idx - 1]).cif
    /\ last_acc # ""

\* extraction from the line gives a borrower
YieldsBorrower(l) ==
    /\ HasCif(l) /\ l[1].w # "-"
    /\ derive_name_and_cif(l).name # << >>
    /\ derive_name_and_cif(l).cif # ""

\* C20: the assembly step of a line that gives a borrower and parses as a
\* facility appends one record, which carries the borrower of the line and
\* the account number of the parsed facility, and sets the hint to that
\* account number
C20_UpdateBeforeEmission ==
    [][(pc = "scan" /\ idx <= Len(lines) /\ ~is_noise(lines[idx])
          /\ YieldsBorrower(lines[idx])
          /\ parse_line(lines[idx], last_acc).ok)
        => LET b == derive_name_and_cif(lines[idx])
               r == rows'[Len(rows')]
           IN  /\ Len(rows') = Len(rows) + 1
               /\ SubSeq(rows', 1, Len(rows)) = rows
               /\ r.Nama = Append(b.name, b.cif)
               /\ r.ACC = parse_line(lines[idx], last_acc).acc
               /\ last_acc' = r.ACC
               /\ current_name' = b.name /\ current_cif' = b.cif]_vars

\* after a line that gave one borrower, a line that gives another borrower
\* and parses as a facility was scanned
C20_Witness ==
    /\ pc = "scan" /\ idx > 2
    /\ YieldsBorrower(lines[idx - 2])
    /\ YieldsBorrower(lines[idx - 1])
    /\ derive_name_and_cif(lines[idx - 2]).cif
         # derive_name_and_cif(lines[idx - 1]).cif
    /\ rows # << >>
    /\ rows[Len(rows)].Nama[Len(rows[Len(rows)].Nama)] = current_cif
    /\ current_cif = derive_name_and_cif(lines[idx - 1]).cif
    /\ last_acc = rows[Len(rows)].ACC
    /\ HasAcc(lines[idx - 1])

(***************************************************************************)
(* Properties of the token store under concurrent requests                 *)
(***************************************************************************)
\* C21: no two tokens of the TOKENS store map to the same file path
C21_OneTokenPerFile ==
    \A t, u \in DOMAIN TOKENS :
        TOKENS[t].path = TOKENS[u].path => t = u
====
